---- MODULE Spec2Model ----
(***************************************************************************)
(* A model of readscale.py: the USB postal scale reader.                   *)
(*                                                                         *)
(* The reader object (USBScaleBase and its two backends USBScaleWin and    *)
(* USBScaleMac), the drain loops of the two read methods, the unit         *)
(* conversion properties and the run-once __main__ block.                  *)
(*                                                                         *)
(* Encodings.  Python's None for raw_weight is the integer None (-1),      *)
(* outside the 0..65535 range of a decoded raw weight.  A Python list or   *)
(* array of bytes is a sequence; Python's index i is At(s, i) = s[i+1].    *)
(* A float weight in ounces is an exact fraction [num, den]: raw * 0.1 is  *)
(* raw/10 and raw * .035274 is raw*17637/500000.                           *)
(***************************************************************************)
EXTENDS Integers, Sequences, FiniteSets, TLC

VARIABLES
    entry,       \* "main": run as a script (__name__ == '__main__'); "import": used as a library
    platform,    \* sys.platform
    pc,          \* position of the program
    scale,       \* class of the reader object that exists: "None", "Win" or "Mac"
    data,        \* self.data
    raw_weight,  \* self.raw_weight
    ldata,       \* the local variable data of the running read()
    empty,       \* the local variable empty of USBScaleMac.read
    caller,      \* who called the running read(): "init" (constructor) or "update"
    ret,         \* how the latest read() ended: what it returned, or that it raised
    stdout,      \* the lines written to standard output, in order
    calls,       \* the device calls made so far (lookup, open, configuration, read, release)
    error,       \* the exception that ended the run ("" when none)
    hist,        \* history: outcomes of the device reads of the running/latest read()
    truncated,   \* history: hist lost its oldest entries (more than MaxHist reads)
    pre          \* history: self.data and self.raw_weight when the running/latest read() began

vars == <<entry, platform, pc, scale, data, raw_weight, ldata, empty, caller,
          ret, stdout, calls, error, hist, truncated, pre>>

-----------------------------------------------------------------------------
(* Program constants *)

None == -1
DATA_MODE_GRAMS == 2
DATA_MODE_OUNCES == 11
ByteBase == 256
OuncesPerPound == 16
ZeroData == <<0, 0, 0, 0, 0, 0>>

(* Bounds *)
MaxHist == 3

At(s, i) == s[i + 1]

-----------------------------------------------------------------------------
(* What the device can deliver to one read call *)

Sample(mode, lo, hi) == <<3, 4, mode, 255, lo, hi>>

\* Results of one device read that carry bytes: full 6-byte reports in the two
\* known modes and in an unknown one, the all-zero report, and a short report.
DeviceData ==
    { Sample(DATA_MODE_OUNCES, 100, 0),
      Sample(DATA_MODE_GRAMS, 10, 0),
      Sample(5, 44, 1),
      ZeroData,
      <<3, 4, DATA_MODE_OUNCES, 255>> }

Got(d) == [kind |-> "data", bytes |-> d]
Timeout == [kind |-> "timeout", bytes |-> <<>>]
IOError == [kind |-> "error", bytes |-> <<>>]
Unset == [kind |-> "None", bytes |-> <<>>]

\* usb device.read: an array of bytes (possibly of length zero), a timeout-class
\* USBError, or another USBError.
WinOutcomes == { Got(d) : d \in DeviceData \cup {<<>>} } \cup {Timeout, IOError}

\* hid device.read in non-blocking mode: a list of bytes, empty when no report
\* is waiting, or an error.
MacOutcomes == { Got(d) : d \in DeviceData \cup {<<>>} } \cup {IOError}

Platforms == {"darwin", "win32", "linux"}

\* Python truth value of the local data: None and empty sequences are false.
Truthy(x) == x.kind = "data" /\ Len(x.bytes) > 0

Push(h, o) == IF Len(h) < MaxHist THEN Append(h, o) ELSE Append(Tail(h), o)

\* data[4] + data[5] * 256
Decode(d) == At(d, 4) + At(d, 5) * ByteBase

-----------------------------------------------------------------------------
(* Unit conversion: the properties of USBScaleBase.  ok = FALSE is a raised *)
(* TypeError (None * 0.1).                                                  *)

OuncesFactor == [num |-> 1, den |-> 10]
GramsFactor == [num |-> 17637, den |-> 500000]
Raised == [ok |-> FALSE, num |-> 0, den |-> 1]

\* Mutant: "else" in place of "elif": every mode but Ounces is taken for Grams
corrected_raw_weight_ElseGrams ==
    IF At(data, 2) = DATA_MODE_OUNCES
    THEN IF raw_weight = None THEN Raised
         ELSE [ok |-> TRUE, num |-> raw_weight * OuncesFactor.num, den |-> OuncesFactor.den]
    ELSE IF raw_weight = None THEN Raised
         ELSE [ok |-> TRUE, num |-> raw_weight * GramsFactor.num, den |-> GramsFactor.den]

corrected_raw_weight ==
    IF At(data, 2) = DATA_MODE_OUNCES
    THEN IF raw_weight = None THEN Raised
         ELSE [ok |-> TRUE, num |-> raw_weight * OuncesFactor.num, den |-> OuncesFactor.den]
    ELSE IF At(data, 2) = DATA_MODE_GRAMS
    THEN IF raw_weight = None THEN Raised
         ELSE [ok |-> TRUE, num |-> raw_weight * GramsFactor.num, den |-> GramsFactor.den]
    ELSE [ok |-> TRUE, num |-> 0, den |-> 1]

\* Mutant: the raw weight, not the corrected one, is divided by 16
pounds_OfRawWeight ==
    LET w == corrected_raw_weight
    IN  IF w.ok THEN [ok |-> TRUE, val |-> w.num \div OuncesPerPound]
        ELSE [ok |-> FALSE, val |-> 0]

\* corrected_raw_weight // 16
pounds ==
    LET w == corrected_raw_weight
    IN  IF w.ok THEN [ok |-> TRUE, val |-> w.num \div (OuncesPerPound * w.den)]
        ELSE [ok |-> FALSE, val |-> 0]

\* corrected_raw_weight % 16
ounces ==
    LET w == corrected_raw_weight
    IN  IF w.ok THEN [ok |-> TRUE, num |-> w.num % (OuncesPerPound * w.den), den |-> w.den]
        ELSE Raised

\* round(ounces, 2), in hundredths of an ounce.  At an exact tie the float
\* representation decides which neighbour is printed: both are possible.
Round2(o) ==
    LET h == (o.num * 100) \div o.den
        r == (o.num * 100) % o.den
    IN  IF 2 * r < o.den THEN {h}
        ELSE IF 2 * r > o.den THEN {h + 1}
        ELSE {h, h + 1}

HeaderLine == [line |-> "Content-type", pounds |-> 0, ounces |-> 0]
BusyLine == [line |-> "Device appears to be busy", pounds |-> 0, ounces |-> 0]
CallbackLine(p, o) == [line |-> "here_is_the_weight", pounds |-> p, ounces |-> o]

-----------------------------------------------------------------------------
(* Initial state *)

NoCall == [kind |-> "nocall", val |-> None]

Init ==
    /\ entry \in {"main", "import"}
    /\ platform \in Platforms
    /\ pc = IF entry = "main" THEN "start" ELSE "set_scale"
    /\ scale = "None"
    /\ data = ZeroData
    /\ raw_weight = None
    /\ ldata = Unset
    /\ empty = FALSE
    /\ caller = "init"
    /\ ret = NoCall
    /\ stdout = <<>>
    /\ calls = {}
    /\ error = ""
    /\ hist = <<>>
    /\ truncated = FALSE
    /\ pre = [data |-> ZeroData, raw_weight |-> None]

readerVars == <<data, raw_weight>>
localVars == <<ldata, empty, caller>>
histVars == <<hist, truncated, pre>>
envVars == <<entry, platform>>

-----------------------------------------------------------------------------
(* read() is entered: its locals are fresh *)

StartRead(c) ==
    /\ caller' = c
    /\ ldata' = Unset
    /\ empty' = FALSE
    /\ hist' = <<>>
    /\ truncated' = FALSE
    /\ pre' = [data |-> data, raw_weight |-> raw_weight]

\* Mutant: update() too stores what read() returned in self.raw_weight
ReadReturns_UpdateStores(v, newData, newRaw) ==
    /\ ret' = [kind |-> "return", val |-> v]
    /\ data' = newData
    /\ raw_weight' = v
    /\ pc' = "ready"
    /\ error' = error

\* read() returns v to its caller, having left newData and newRaw in the
\* object: the constructor stores v in self.raw_weight, update() drops it.
ReadReturns(v, newData, newRaw) ==
    /\ ret' = [kind |-> "return", val |-> v]
    /\ data' = newData
    /\ raw_weight' = IF caller = "init" THEN v ELSE newRaw
    /\ pc' = "ready"
    /\ error' = error

\* read() raises e: out of the constructor it ends the run; out of update()
\* it is handed to the library's client, and the reader stays usable.
ReadRaises(e) ==
    /\ ret' = [kind |-> "raise", val |-> None]
    /\ UNCHANGED readerVars
    /\ IF caller = "init"
       THEN pc' = "failed" /\ error' = e
       ELSE pc' = "ready" /\ error' = error

-----------------------------------------------------------------------------
(* __main__ and backend selection *)

PrintHeader ==
    /\ entry = "main"
    /\ pc = "start"
    /\ stdout' = Append(stdout, HeaderLine)
    /\ pc' = "set_scale"
    /\ UNCHANGED <<envVars, scale, readerVars, localVars, ret, calls, error, histVars>>

\* Mutant: the last branch of system_type falls back to 'Win'
SystemType_DefaultWin ==
    /\ pc = "set_scale"
    /\ IF platform = "darwin" THEN pc' = "mac_init" /\ error' = error
       ELSE pc' = "win_init" /\ error' = error
    /\ UNCHANGED <<envVars, scale, readerVars, localVars, ret, stdout, calls, histVars>>

\* set_scale: system_type(), then the class USBScale<type> is looked up
SystemType ==
    /\ pc = "set_scale"
    /\ IF platform = "darwin" THEN pc' = "mac_init" /\ error' = error
       ELSE IF platform = "win32" THEN pc' = "win_init" /\ error' = error
       ELSE pc' = "failed" /\ error' = "NotImplementedError"
    /\ UNCHANGED <<envVars, scale, readerVars, localVars, ret, stdout, calls, histVars>>

-----------------------------------------------------------------------------
(* Backend A: USBScaleWin *)

WinInit ==
    /\ pc = "win_init"
    /\ scale' = "Win"
    /\ \E r \in {"found", "not found", "configuration error"} :
        \/ /\ r = "found"
           /\ calls' = calls \cup {"find", "set_configuration"}
           /\ pc' = "win_loop"
           /\ error' = error
        \/ /\ r = "not found"
           /\ calls' = calls \cup {"find"}
           /\ pc' = "failed"
           /\ error' = "ValueError"
        \/ /\ r = "configuration error"
           /\ calls' = calls \cup {"find", "set_configuration"}
           /\ pc' = "failed"
           /\ error' = "USBError"
    /\ StartRead("init")
    /\ UNCHANGED <<envVars, readerVars, ret, stdout>>

\* Mutant: the loop keeps the first sample it got, not the last
WinLoopRead_KeepFirst ==
    /\ pc = "win_loop"
    /\ \E o \in WinOutcomes :
        /\ calls' = calls \cup {"read"}
        /\ hist' = Push(hist, o)
        /\ truncated' = (truncated \/ Len(hist) = MaxHist)
        /\ \/ /\ o.kind = "data"
              /\ ldata' = IF ldata = Unset THEN o ELSE ldata
              /\ pc' = "win_loop"
              /\ UNCHANGED <<readerVars, ret, error>>
           \/ /\ o.kind = "timeout"
              /\ ldata' = ldata
              /\ pc' = "win_after"
              /\ UNCHANGED <<readerVars, ret, error>>
           \/ /\ o.kind = "error"
              /\ ldata' = ldata
              /\ ReadRaises("USBError")
    /\ UNCHANGED <<envVars, scale, empty, caller, stdout, pre>>

\* Mutant: once a sample was read, any USBError ends the loop like a timeout
WinLoopRead_SwallowError ==
    /\ pc = "win_loop"
    /\ \E o \in WinOutcomes :
        /\ calls' = calls \cup {"read"}
        /\ hist' = Push(hist, o)
        /\ truncated' = (truncated \/ Len(hist) = MaxHist)
        /\ \/ /\ o.kind = "data"
              /\ ldata' = o
              /\ pc' = "win_loop"
              /\ UNCHANGED <<readerVars, ret, error>>
           \/ /\ o.kind = "timeout" \/ (o.kind = "error" /\ Truthy(ldata))
              /\ ldata' = ldata
              /\ pc' = "win_after"
              /\ UNCHANGED <<readerVars, ret, error>>
           \/ /\ o.kind = "error" /\ ~Truthy(ldata)
              /\ ldata' = ldata
              /\ ReadRaises("USBError")
    /\ UNCHANGED <<envVars, scale, empty, caller, stdout, pre>>

\* One turn of the while loop of USBScaleWin.read
WinLoopRead ==
    /\ pc = "win_loop"
    /\ \E o \in WinOutcomes :
        /\ calls' = calls \cup {"read"}
        /\ hist' = Push(hist, o)
        /\ truncated' = (truncated \/ Len(hist) = MaxHist)
        /\ \/ /\ o.kind = "data"
              /\ ldata' = o
              /\ pc' = "win_loop"
              /\ UNCHANGED <<readerVars, ret, error>>
           \/ /\ o.kind = "timeout"
              /\ ldata' = ldata
              /\ pc' = "win_after"
              /\ UNCHANGED <<readerVars, ret, error>>
           \/ /\ o.kind = "error"
              /\ ldata' = ldata
              /\ ReadRaises("USBError")
    /\ UNCHANGED <<envVars, scale, empty, caller, stdout, pre>>

\* Mutant: the raw weight is stored, the sample it came from is not
WinReadFinish_DataNotStored ==
    /\ pc = "win_after"
    /\ IF ~Truthy(ldata)
       THEN ReadReturns(None, data, raw_weight)
       ELSE IF Len(ldata.bytes) < 6
       THEN ReadRaises("IndexError")
       ELSE ReadReturns(Decode(ldata.bytes), data, Decode(ldata.bytes))
    /\ UNCHANGED <<envVars, scale, localVars, stdout, calls, histVars>>

\* After the loop: "if not data: return", then decode and store
WinReadFinish ==
    /\ pc = "win_after"
    /\ IF ~Truthy(ldata)
       THEN ReadReturns(None, data, raw_weight)
       ELSE IF Len(ldata.bytes) < 6
       THEN ReadRaises("IndexError")
       ELSE ReadReturns(Decode(ldata.bytes), ldata.bytes, Decode(ldata.bytes))
    /\ UNCHANGED <<envVars, scale, localVars, stdout, calls, histVars>>

-----------------------------------------------------------------------------
(* Backend B: USBScaleMac *)

\* A failed open is reported on standard output and the constructor goes on;
\* set_nonblocking on the handle that was not opened then either raises or
\* passes, whichever the hid library does.
MacInit ==
    /\ pc = "mac_init"
    /\ scale' = "Mac"
    /\ \E opened \in BOOLEAN, passes \in BOOLEAN :
        /\ opened => passes
        /\ stdout' = IF opened THEN stdout ELSE Append(stdout, BusyLine)
        /\ calls' = calls \cup {"open", "set_nonblocking"}
        /\ IF passes
           THEN pc' = "mac_loop" /\ error' = error
           ELSE pc' = "failed" /\ error' = "ValueError"
    /\ StartRead("init")
    /\ UNCHANGED <<envVars, readerVars, ret>>

\* Mutant: the loop stops at the first data-bearing read, empty read or not
MacLoopRead_BreakOnData ==
    /\ pc = "mac_loop"
    /\ \E o \in MacOutcomes :
        /\ calls' = calls \cup {"read"}
        /\ hist' = Push(hist, o)
        /\ truncated' = (truncated \/ Len(hist) = MaxHist)
        /\ \/ /\ o.kind = "data"
              /\ ldata' = o
              /\ empty' = (empty \/ ~Truthy(o))
              /\ pc' = IF Truthy(o) THEN "mac_after" ELSE "mac_loop"
              /\ UNCHANGED <<readerVars, ret, error>>
           \/ /\ o.kind = "error"
              /\ ldata' = ldata
              /\ empty' = empty
              /\ ReadRaises("IOError")
    /\ UNCHANGED <<envVars, scale, caller, stdout, pre>>

\* One turn of the while loop of USBScaleMac.read
MacLoopRead ==
    /\ pc = "mac_loop"
    /\ \E o \in MacOutcomes :
        /\ calls' = calls \cup {"read"}
        /\ hist' = Push(hist, o)
        /\ truncated' = (truncated \/ Len(hist) = MaxHist)
        /\ \/ /\ o.kind = "data"
              /\ ldata' = o
              /\ empty' = (empty \/ ~Truthy(o))
              /\ pc' = IF Truthy(o) /\ empty' THEN "mac_after" ELSE "mac_loop"
              /\ UNCHANGED <<readerVars, ret, error>>
           \/ /\ o.kind = "error"
              /\ ldata' = ldata
              /\ empty' = empty
              /\ ReadRaises("IOError")
    /\ UNCHANGED <<envVars, scale, caller, stdout, pre>>

\* After the loop: decode and store
MacStore ==
    /\ pc = "mac_after"
    /\ IF Len(ldata.bytes) < 6
       THEN ReadRaises("IndexError")
       ELSE ReadReturns(Decode(ldata.bytes), ldata.bytes, Decode(ldata.bytes))
    /\ UNCHANGED <<envVars, scale, localVars, stdout, calls, histVars>>

-----------------------------------------------------------------------------
(* Use of a constructed reader *)

\* update(): the library's client refreshes the reader
Update ==
    /\ entry = "import"
    /\ pc = "ready"
    /\ StartRead("update")
    /\ pc' = IF scale = "Win" THEN "win_loop" ELSE "mac_loop"
    /\ UNCHANGED <<envVars, scale, readerVars, ret, stdout, calls, error>>

\* The rest of __main__: the two properties are read and the line is printed
Main ==
    /\ entry = "main"
    /\ pc = "ready"
    /\ IF pounds.ok /\ ounces.ok
       THEN /\ \E h \in Round2(ounces) :
                 stdout' = Append(stdout, CallbackLine(pounds.val, h))
            /\ pc' = "done"
            /\ error' = error
       ELSE /\ stdout' = stdout
            /\ pc' = "failed"
            /\ error' = "TypeError"
    /\ UNCHANGED <<envVars, scale, readerVars, localVars, ret, calls, histVars>>

\* __del__: the reader object is released when the run ends or the client
\* drops it
Del ==
    /\ scale # "None"
    /\ \/ pc \in {"done", "failed"}
       \/ entry = "import" /\ pc = "ready"
    /\ calls' = calls \cup {IF scale = "Win" THEN "dispose_resources" ELSE "close"}
    /\ pc' = "exited"
    /\ UNCHANGED <<envVars, scale, readerVars, localVars, ret, stdout, error, histVars>>

Next ==
    \/ PrintHeader
    \/ SystemType
    \/ WinInit
    \/ WinLoopRead
    \/ WinReadFinish
    \/ MacInit
    \/ MacLoopRead
    \/ MacStore
    \/ Update
    \/ Main
    \/ Del

Spec == Init /\ [][Next]_vars


\* A sequential program that can take a step takes it
FairSpec == Spec /\ WF_vars(Next)

-----------------------------------------------------------------------------
(* The conversion over the whole range of the two magnitude bytes: the     *)
(* reader of a script run on the first platform, at the end of a read()    *)
(* that got one 6-byte report and then the timeout.                        *)

ConvModes == {DATA_MODE_OUNCES, DATA_MODE_GRAMS}

ConvInit ==
    /\ entry = "main"
    /\ platform = "win32"
    /\ pc = "win_after"
    /\ scale = "Win"
    /\ data = ZeroData
    /\ raw_weight = None
    /\ \E m \in ConvModes, lo \in 0..(ByteBase - 1), hi \in 0..(ByteBase - 1) :
        /\ ldata = Got(Sample(m, lo, hi))
        /\ hist = <<Got(Sample(m, lo, hi)), Timeout>>
    /\ empty = FALSE
    /\ caller = "init"
    /\ ret = NoCall
    /\ stdout = <<HeaderLine>>
    /\ calls = {"find", "set_configuration", "read"}
    /\ error = ""
    /\ truncated = FALSE
    /\ pre = [data |-> ZeroData, raw_weight |-> None]

ConvNext ==
    \/ WinReadFinish
    \/ Main
    \/ Del

ConvSpec == ConvInit /\ [][ConvNext]_vars

-----------------------------------------------------------------------------
(* Properties *)

Last(h) == h[Len(h)]

\* A read() has ended and no later one has begun: hist, pre and ret are its own
AfterRead == ret.kind # "nocall" /\ pc \in {"ready", "done", "failed", "exited"}

HasCallback == \E i \in 1..Len(stdout) : stdout[i].line = "here_is_the_weight"

EmptyRead(o) == o.kind = "data" /\ o.bytes = <<>>

\* The j-th device read carried data and an earlier one was empty
DataAfterEmpty(h, j) == Truthy(h[j]) /\ \E i \in 1..(j - 1) : EmptyRead(h[i])

\* C1: Backend A: when a read() got the 6-byte samples S1..Sn and then the
\* timeout, the stored sample is Sn, the stored raw weight is
\* Sn[4] + Sn[5]*256, and that raw weight is what read() returned.
C1_LastSampleBeforeTimeout ==
    (/\ scale = "Win"
     /\ AfterRead
     /\ Len(hist) >= 2
     /\ Last(hist) = Timeout
     /\ hist[Len(hist) - 1].kind = "data"
     /\ Len(hist[Len(hist) - 1].bytes) = 6)
    => LET Sn == hist[Len(hist) - 1].bytes
       IN  /\ data = Sn
           /\ raw_weight = At(Sn, 4) + At(Sn, 5) * 256
           /\ ret = [kind |-> "return", val |-> At(Sn, 4) + At(Sn, 5) * 256]

\* Two different samples, then the timeout: the second one is stored
C1_Witness ==
    /\ scale = "Win"
    /\ AfterRead
    /\ Len(hist) = 3
    /\ hist[1].kind = "data" /\ Len(hist[1].bytes) = 6
    /\ hist[2].kind = "data" /\ Len(hist[2].bytes) = 6
    /\ hist[1] # hist[2]
    /\ hist[3] = Timeout
    /\ data = hist[2].bytes
    /\ raw_weight = 300

\* C2: Backend B: read() goes on as long as no data-bearing read has followed
\* an empty one, and stops at the first that does: that read is the stored
\* sample and the returned raw weight; data-bearing reads before the first
\* empty read are never the result.
C2_FirstDataAfterEmpty ==
    (scale = "Mac" /\ ~truncated)
    => /\ pc = "mac_loop" => \A j \in 1..Len(hist) : ~DataAfterEmpty(hist, j)
       /\ (pc = "mac_after" \/ (AfterRead /\ ret.kind = "return"))
          => /\ Len(hist) >= 2
             /\ DataAfterEmpty(hist, Len(hist))
             /\ \A j \in 1..(Len(hist) - 1) : ~DataAfterEmpty(hist, j)
       /\ (AfterRead /\ ret.kind = "return")
          => /\ data = Last(hist).bytes
             /\ ret.val = At(data, 4) + At(data, 5) * 256
             /\ \A j \in 1..Len(hist) :
                    (\A i \in 1..j : ~EmptyRead(hist[i])) => j # Len(hist)

\* A sample, an empty read, another sample: the second sample is the result
C2_Witness ==
    /\ scale = "Mac"
    /\ AfterRead
    /\ ret.kind = "return"
    /\ Len(hist) = 3
    /\ Truthy(hist[1])
    /\ EmptyRead(hist[2])
    /\ Truthy(hist[3])
    /\ hist[1] # hist[3]
    /\ data = hist[3].bytes

\* C3: every read() ends: a drain loop that has been entered is left
C3_ReadTerminates ==
    (pc \in {"win_loop", "mac_loop"}) ~> (pc \notin {"win_loop", "mac_loop"})

\* C4: the stored raw weight and the stored sample belong together: either no
\* raw weight is set and the sample is the initial all-zero one, or the raw
\* weight is data[4] + data[5]*256 of the stored sample.
C4_SameSample ==
    \/ raw_weight = None /\ data = ZeroData
    \/ /\ raw_weight # None
       /\ Len(data) >= 6
       /\ raw_weight = At(data, 4) + At(data, 5) * 256

\* An update() that read a sample other than the stored one and then raised
C4_Witness ==
    /\ pc = "ready"
    /\ caller = "update"
    /\ ret.kind = "raise"
    /\ raw_weight = 300
    /\ Len(hist) >= 2
    /\ hist[1].kind = "data" /\ Len(hist[1].bytes) = 6
    /\ hist[1].bytes # data

\* C5: the three conversion properties never raise, and all are zero when
\* data[2] is neither 2 nor 11.
C5_ConversionTotal ==
    /\ corrected_raw_weight.ok
    /\ pounds.ok
    /\ ounces.ok
    /\ At(data, 2) \notin {2, 11}
       => /\ corrected_raw_weight.num = 0
          /\ pounds.val = 0
          /\ ounces.num = 0

\* A reader holding a sample of an unknown mode with a nonzero magnitude
C5_Witness ==
    /\ pc = "ready"
    /\ At(data, 2) = 5
    /\ raw_weight = 300
    /\ pounds.val = 0

\* C6: in Ounces mode with R = data[4] + data[5]*256, in tenths of an
\* ounce: pounds = R div 160, ounces = R mod 160 (so 0 <= ounces < 16), and
\* pounds*160 + ounces = R; the printed line carries these pounds and these
\* ounces.
C6_OuncesQuotientRemainder ==
    (pc \in {"ready", "done"} /\ At(data, 2) = 11)
    => LET R == At(data, 4) + At(data, 5) * 256
       IN  /\ R \in 0..65535
           /\ corrected_raw_weight = [ok |-> TRUE, num |-> R, den |-> 10]
           /\ pounds = [ok |-> TRUE, val |-> R \div 160]
           /\ ounces = [ok |-> TRUE, num |-> R % 160, den |-> 10]
           /\ ounces.num >= 0 /\ ounces.num < 160
           /\ pounds.val * 160 + ounces.num = R
           /\ pc = "done" => Last(stdout) = CallbackLine(R \div 160, (R % 160) * 10)

\* The largest magnitude, 65535: 409 pounds and 9.5 ounces
C6_Witness ==
    /\ pc = "done"
    /\ At(data, 2) = 11
    /\ raw_weight = 65535
    /\ pounds.val = 409
    /\ ounces.num = 95
    /\ Last(stdout) = CallbackLine(409, 950)

\* C7: on a platform that is neither of the two supported ones no device call
\* is made, no reader object exists, no callback line is printed, and the run
\* ends with the unsupported-platform error.
C7_UnsupportedPlatform ==
    platform \notin {"darwin", "win32"}
    => /\ calls = {}
       /\ scale = "None"
       /\ ~HasCallback
       /\ pc \in {"start", "set_scale", "failed"}
       /\ pc = "failed" => error = "NotImplementedError"

\* The script, failed on the third platform after its header line
C7_Witness ==
    /\ entry = "main"
    /\ platform = "linux"
    /\ pc = "failed"
    /\ error = "NotImplementedError"
    /\ stdout = <<HeaderLine>>

\* C8: a callback line is printed only when a sample was read from the device
\* (the read() of the run returned a raw weight), and a failed run leaves
\* nothing on standard output.
C8_NoPartialResult ==
    entry = "main"
    => /\ HasCallback => (ret.kind = "return" /\ ret.val # None)
       /\ pc = "failed" => stdout = <<>>

\* The first clause alone: no callback line without a sample
C8_CallbackCarriesSample ==
    (entry = "main" /\ HasCallback) => (ret.kind = "return" /\ ret.val # None)

\* C9: Backend A: a device read error that is not a timeout ends read() with
\* that failure wherever in the drain it comes, and the stored sample and raw
\* weight are those of before the call.
C9_ErrorPropagates ==
    (scale = "Win" /\ Len(hist) > 0 /\ Last(hist) = IOError)
    => /\ ret.kind = "raise"
       /\ pc \notin {"win_loop", "win_after"}
       /\ caller = "init" => (pc \in {"failed", "exited"} /\ error = "USBError")
       /\ data = pre.data
       /\ raw_weight = pre.raw_weight

\* An update() of a reader that holds a weight: two samples, then the error
C9_Witness ==
    /\ scale = "Win"
    /\ caller = "update"
    /\ pc = "ready"
    /\ Len(hist) = 3
    /\ hist[1].kind = "data" /\ Len(hist[1].bytes) = 6
    /\ hist[2].kind = "data" /\ Len(hist[2].bytes) = 6
    /\ hist[2].bytes # data
    /\ hist[3] = IOError
    /\ raw_weight = 300

\* C10: Backend A: a read() whose first device read times out returns None
\* and leaves the stored sample and raw weight as they were.
C10_NoDataLeavesState ==
    (scale = "Win" /\ AfterRead /\ hist = <<Timeout>>)
    => /\ ret = [kind |-> "return", val |-> None]
       /\ data = pre.data
       /\ raw_weight = pre.raw_weight

\* A no-data update() of a reader that holds a weight
C10_Witness ==
    /\ scale = "Win"
    /\ caller = "update"
    /\ pc = "ready"
    /\ hist = <<Timeout>>
    /\ raw_weight = 300
    /\ At(data, 2) = 5

====
